---------------------------- MODULE Spec2Model ----------------------------
(***************************************************************************)
(* A model of tlsprofiler (src/tlsprofiler/__init__.py): the TLSProfiler   *)
(* class, which audits a TLS endpoint against a named Mozilla profile, and *)
(* the TLSProfilerResult report it returns.                                *)
(*                                                                         *)
(* The external collaborators (requests, sslyze) are the environment: each *)
(* call into them is a point where the model draws the answer from a       *)
(* bounded set, or lets the call raise.                                    *)
(*                                                                         *)
(* Python values.  None is the record None below in every slot that        *)
(* otherwise holds a record (PROFILES, server_info, the HSTS header), and  *)
(* the string NoneStr in the one slot that otherwise holds a str           *)
(* (server_error): TLC compares only values of one kind.  An error message *)
(* (an f-string) is a record: its fixed text in msg, and the values the    *)
(* f-string interpolates in further fields.  A list is a sequence.         *)
(***************************************************************************)
EXTENDS Integers, Sequences, FiniteSets, TLC

(***************************************************************************)
(* Bounds of the model.                                                    *)
(***************************************************************************)
\* trust stores the certificate inspector validates against, at most
MaxStores == 2
\* chain-building errors the certificate inspector reports, at most
MaxPathErrors == 1
\* signed certificate timestamps on the leaf certificate, at most
MaxSct == 2
\* the largest max-age a Strict-Transport-Security header carries
MaxAge == 3
\* threads constructing profilers concurrently
NumThreads == 2

None == [None |-> TRUE]
NoneStr == "None"

(***************************************************************************)
(* Data of the environment.                                                *)
(***************************************************************************)
\* TLSProfiler.SCAN_COMMANDS, a dict: its keys in insertion order
SCAN_COMMANDS ==
    <<[name |-> "SSLv2", command |-> "Sslv20ScanCommand"],
      [name |-> "SSLv3", command |-> "Sslv30ScanCommand"],
      [name |-> "TLSv1", command |-> "Tlsv10ScanCommand"],
      [name |-> "TLSv1.1", command |-> "Tlsv11ScanCommand"],
      [name |-> "TLSv1.2", command |-> "Tlsv12ScanCommand"],
      [name |-> "TLSv1.3", command |-> "Tlsv13ScanCommand"]>>

Protocols == {SCAN_COMMANDS[i].name : i \in 1..Len(SCAN_COMMANDS)}

\* OpenSSL names of cipher suites a server can accept
AllCiphers == {"TLS_AES_128_GCM_SHA256", "ECDHE-RSA-AES128-GCM-SHA256", "DES-CBC3-SHA"}

\* the cipher suites the target of a run() can accept, in the order in which
\* a scan lists them
TargetCiphers == <<"TLS_AES_128_GCM_SHA256", "DES-CBC3-SHA">>

\* the protocol versions under which the target of a run() can accept a
\* cipher suite; under the others its scans accept nothing
TargetProtocols == {"SSLv3", "TLSv1.2", "TLSv1.3"}

\* the names of the trust stores, in the order the inspector reports them
TrustStores == <<"Mozilla", "Apple", "Java", "Windows", "Android">>

\* profile documents the fixed URL can serve: the current one, an older one
\* with other contents, and two that lack a top-level key.  hsts_min_age is
\* in units that put it inside 0..MaxAge (the published value is 63072000 s).
Doc5 ==
    [version |-> "5.0",
     configurations |->
       [modern |-> [tls_versions |-> <<"TLSv1.3">>,
                    openssl_ciphersuites |-> <<"TLS_AES_128_GCM_SHA256">>,
                    openssl_ciphers |-> <<>>,
                    hsts_min_age |-> 2],
        old |-> [tls_versions |-> <<"TLSv1", "TLSv1.1", "TLSv1.2", "TLSv1.3">>,
                 openssl_ciphersuites |-> <<"TLS_AES_128_GCM_SHA256">>,
                 openssl_ciphers |-> <<"ECDHE-RSA-AES128-GCM-SHA256", "DES-CBC3-SHA">>,
                 hsts_min_age |-> 2]]]

Doc4 ==
    [version |-> "4.0",
     configurations |->
       [old |-> [tls_versions |-> <<"SSLv3", "TLSv1", "TLSv1.1", "TLSv1.2">>,
                 openssl_ciphersuites |-> <<>>,
                 openssl_ciphers |-> <<"ECDHE-RSA-AES128-GCM-SHA256", "DES-CBC3-SHA">>,
                 hsts_min_age |-> 1]]]

DocNoVersion == [configurations |-> Doc4.configurations]

DocNoConfigurations == [version |-> "5.0"]

Documents == {Doc5, Doc4, DocNoVersion, DocNoConfigurations}

\* the profile names a caller asks for; "bogus" is in no document
ProfileNames == {"modern", "old", "bogus"}

\* every profile of every document
AllProfiles ==
    {Doc5.configurations.modern, Doc5.configurations.old, Doc4.configurations.old}

\* what ServerConnectivityError.error_message can say.  __init__ catches
\* this exception only; it is the failure of the connectivity probe.
Causes == {"Connection timed out", "Connection rejected"}

(***************************************************************************)
(* Python built-ins.                                                       *)
(***************************************************************************)
\* set(list)
ToSet(s) == {s[i] : i \in 1..Len(s)}

\* the orders in which iterating a set can yield its elements: iteration
\* order of a set of str depends on the hash seed of the process
Orders(S) ==
    {s \in [1..Cardinality(S) -> S] : \A i, j \in 1..Cardinality(S) : s[i] = s[j] => i = j}

\* the lists that keep some elements of the list s, in its order
RECURSIVE SubLists(_)
SubLists(s) ==
    IF s = <<>> THEN {<<>>}
    ELSE LET rest == SubLists(Tail(s))
         IN  rest \cup {<<Head(s)>> \o r : r \in rest}

\* bool(x) of an object of a class that defines neither __bool__ nor __len__
Truthy(x) == x # None


(***************************************************************************)
(* State.                                                                  *)
(***************************************************************************)
VARIABLES
    PROFILES,   \* the class attribute TLSProfiler.PROFILES
    pc,         \* per thread: where it stands in __init__ or run()
    self,       \* per thread: the attributes of its TLSProfiler, or NoObject
    locals,     \* per thread: the local variables of its run() call in progress
    ret,        \* per thread: how its last __init__ or run() call ended
    probes,     \* per thread: the probes its current audit has issued
    call,       \* a direct call of one check method: the method and its inputs
    out         \* what that call returned

vars == <<PROFILES, pc, self, locals, ret, probes, call, out>>

lifecycle == <<PROFILES, pc, self, locals, ret, probes>>

Threads == 1..NumThreads

(***************************************************************************)
(* TLSProfilerResult.                                                      *)
(***************************************************************************)
\* a bug TLSProfilerResult could have: all_ok ignores vulnerable
TLSProfilerResult_ignoring_vulnerable(validation_errors, profile_errors, vulnerability_errors) ==
    LET validated == Len(validation_errors) = 0
        profile_matched == Len(profile_errors) = 0
        vulnerable == Len(vulnerability_errors) > 0
    IN  [kind |-> "TLSProfilerResult",
         validation_errors |-> validation_errors,
         profile_errors |-> profile_errors,
         vulnerability_errors |-> vulnerability_errors,
         validated |-> validated,
         profile_matched |-> profile_matched,
         vulnerable |-> vulnerable,
         all_ok |-> validated /\ profile_matched]

TLSProfilerResult(validation_errors, profile_errors, vulnerability_errors) ==
    LET validated == Len(validation_errors) = 0
        profile_matched == Len(profile_errors) = 0
        vulnerable == Len(vulnerability_errors) > 0
    IN  [kind |-> "TLSProfilerResult",
         validation_errors |-> validation_errors,
         profile_errors |-> profile_errors,
         vulnerability_errors |-> vulnerability_errors,
         validated |-> validated,
         profile_matched |-> profile_matched,
         vulnerable |-> vulnerable,
         all_ok |-> validated /\ profile_matched /\ ~vulnerable]

(***************************************************************************)
(* The check methods, as functions of the scan result they read and of the *)
(* attributes of self they read.                                           *)
(***************************************************************************)
\* check_certificate, the loop over result.path_validation_result_list
RECURSIVE FailedPaths(_)
FailedPaths(l) ==
    IF l = <<>> THEN <<>>
    ELSE (IF ~Head(l).was_validation_successful
          THEN <<[msg |-> "validation not successful",
                  verify_string |-> Head(l).verify_string,
                  trust_store |-> Head(l).trust_store.name]>>
          ELSE <<>>) \o FailedPaths(Tail(l))

\* a bug check_certificate could have: <= where the code has <
check_certificate_sct_le(result) ==
    FailedPaths(result.path_validation_result_list)
    \o (IF result.path_validation_error_list # <<>>
        THEN <<[msg |-> "Validation failed",
                joined |-> [i \in 1..Len(result.path_validation_error_list) |->
                              result.path_validation_error_list[i].error_message]]>>
        ELSE <<>>)
    \o (IF ~result.leaf_certificate_subject_matches_hostname
        THEN <<[msg |-> "Leaf certificate subject does not match hostname!"]>> ELSE <<>>)
    \o (IF ~result.received_chain_has_valid_order
        THEN <<[msg |-> "Certificate chain has wrong order."]>> ELSE <<>>)
    \o (IF result.verified_chain_has_sha1_signature
        THEN <<[msg |-> "SHA1 signature found in chain."]>> ELSE <<>>)
    \o (IF result.verified_chain_has_legacy_symantec_anchor
        THEN <<[msg |-> "Symantec legacy certificate found in chain."]>> ELSE <<>>)
    \o (IF result.leaf_certificate_signed_certificate_timestamps_count <= 2
        THEN <<[msg |-> "Not enought SCTs in certificate, only found",
                n |-> result.leaf_certificate_signed_certificate_timestamps_count]>>
        ELSE <<>>)

check_certificate(result) ==
    FailedPaths(result.path_validation_result_list)
    \o (IF result.path_validation_error_list # <<>>
        THEN <<[msg |-> "Validation failed",
                joined |-> [i \in 1..Len(result.path_validation_error_list) |->
                              result.path_validation_error_list[i].error_message]]>>
        ELSE <<>>)
    \o (IF ~result.leaf_certificate_subject_matches_hostname
        THEN <<[msg |-> "Leaf certificate subject does not match hostname!"]>> ELSE <<>>)
    \o (IF ~result.received_chain_has_valid_order
        THEN <<[msg |-> "Certificate chain has wrong order."]>> ELSE <<>>)
    \o (IF result.verified_chain_has_sha1_signature
        THEN <<[msg |-> "SHA1 signature found in chain."]>> ELSE <<>>)
    \o (IF result.verified_chain_has_legacy_symantec_anchor
        THEN <<[msg |-> "Symantec legacy certificate found in chain."]>> ELSE <<>>)
    \o (IF result.leaf_certificate_signed_certificate_timestamps_count < 2
        THEN <<[msg |-> "Not enought SCTs in certificate, only found",
                n |-> result.leaf_certificate_signed_certificate_timestamps_count]>>
        ELSE <<>>)

\* a bug check_hsts_age could have: <= where the code has <
check_hsts_age_le(result, target_profile) ==
    IF Truthy(result.strict_transport_security_header)
    THEN IF result.strict_transport_security_header.max_age <= target_profile.hsts_min_age
         THEN <<[msg |-> "wrong HSTS age",
                 n |-> result.strict_transport_security_header.max_age]>>
         ELSE <<>>
    ELSE <<[msg |-> "HSTS header not set"]>>

check_hsts_age(result, target_profile) ==
    IF Truthy(result.strict_transport_security_header)
    THEN IF result.strict_transport_security_header.max_age < target_profile.hsts_min_age
         THEN <<[msg |-> "wrong HSTS age",
                 n |-> result.strict_transport_security_header.max_age]>>
         ELSE <<>>
    ELSE <<[msg |-> "HSTS header not set"]>>

\* the error of check_server_matches_profile for one identifier
MustNotSupport(x) == [msg |-> "must not support", id |-> x]

\* the lists a loop appending MustNotSupport(x) for x in the set S can build
MustNotSupportLists(S) ==
    {[i \in 1..Cardinality(S) |-> MustNotSupport(o[i])] : o \in Orders(S)}

\* a bug check_server_matches_profile could have: ^ where the code has -
check_server_matches_profile_symmetric(supported_protocols, supported_ciphers, target_profile) ==
    LET allowed_protocols == ToSet(target_profile.tls_versions)
        illegal_protocols == (supported_protocols \ allowed_protocols)
                                \cup (allowed_protocols \ supported_protocols)
        allowed_ciphers == ToSet(target_profile.openssl_ciphersuites
                                 \o target_profile.openssl_ciphers)
        illegal_ciphers == (supported_ciphers \ allowed_ciphers)
                              \cup (allowed_ciphers \ supported_ciphers)
    IN  {p \o c : p \in MustNotSupportLists(illegal_protocols),
                  c \in MustNotSupportLists(illegal_ciphers)}

\* the lists check_server_matches_profile can return: one per order in which
\* the two sets are iterated
check_server_matches_profile(supported_protocols, supported_ciphers, target_profile) ==
    LET allowed_protocols == ToSet(target_profile.tls_versions)
        illegal_protocols == supported_protocols \ allowed_protocols
        allowed_ciphers == ToSet(target_profile.openssl_ciphersuites
                                 \o target_profile.openssl_ciphers)
        illegal_ciphers == supported_ciphers \ allowed_ciphers
    IN  {p \o c : p \in MustNotSupportLists(illegal_protocols),
                  c \in MustNotSupportLists(illegal_ciphers)}

(***************************************************************************)
(* What the probes can answer.                                             *)
(***************************************************************************)
\* a CertificateInfoScanResult: n trust stores, those of ok validating
CertResult(n, ok, errs, hostname, order, sha1, symantec, sct) ==
    [path_validation_result_list |->
        [i \in 1..n |-> [was_validation_successful |-> i \in ok,
                         verify_string |-> IF i \in ok THEN "ok"
                                           ELSE "self signed certificate",
                         trust_store |-> [name |-> TrustStores[i]]]],
     path_validation_error_list |->
        [i \in 1..errs |-> [error_message |-> "unable to build chain",
                            trust_store |-> [name |-> TrustStores[i]]]],
     leaf_certificate_subject_matches_hostname |-> hostname,
     received_chain_has_valid_order |-> order,
     verified_chain_has_sha1_signature |-> sha1,
     verified_chain_has_legacy_symantec_anchor |-> symantec,
     leaf_certificate_signed_certificate_timestamps_count |-> sct]

CertResults ==
    {CertResult(n, ok, errs, hostname, order, sha1, symantec, sct) :
        n \in 0..MaxStores, ok \in SUBSET (1..MaxStores), errs \in 0..MaxPathErrors,
        hostname \in BOOLEAN, order \in BOOLEAN, sha1 \in BOOLEAN,
        symantec \in BOOLEAN, sct \in 0..MaxSct}

\* the flags of a certificate scan result that are bad
BadFlags(r) ==
    {<<"path", i>> : i \in {j \in 1..Len(r.path_validation_result_list) :
                              ~r.path_validation_result_list[j].was_validation_successful}}
    \cup (IF r.path_validation_error_list # <<>> THEN {<<"chain", 0>>} ELSE {})
    \cup (IF ~r.leaf_certificate_subject_matches_hostname THEN {<<"hostname", 0>>} ELSE {})
    \cup (IF ~r.received_chain_has_valid_order THEN {<<"order", 0>>} ELSE {})
    \cup (IF r.verified_chain_has_sha1_signature THEN {<<"sha1", 0>>} ELSE {})
    \cup (IF r.verified_chain_has_legacy_symantec_anchor THEN {<<"symantec", 0>>} ELSE {})
    \cup (IF r.leaf_certificate_signed_certificate_timestamps_count < 2
          THEN {<<"sct", 0>>} ELSE {})

\* the certificate scan results the target of a run() gives: at most one
\* flag is bad
RunCertResults == {r \in CertResults : Cardinality(BadFlags(r)) <= 1}

\* an HttpHeadersScanResult: no Strict-Transport-Security header, or one
HstsResults ==
    {[strict_transport_security_header |-> h] :
        h \in {None} \cup {[max_age |-> a] : a \in 0..MaxAge}}

\* RobotScanResultEnum
RobotScanResultEnum ==
    {"VULNERABLE_WEAK_ORACLE", "VULNERABLE_STRONG_ORACLE", "NOT_VULNERABLE_NO_ORACLE",
     "NOT_VULNERABLE_RSA_NOT_SUPPORTED", "UNKNOWN_INCONSISTENT_RESULTS"}

\* the accepted_cipher_list of one protocol scan, as OpenSSL names
AcceptedLists == SubLists(TargetCiphers)

(***************************************************************************)
(* Direct calls of the check methods: the inputs are drawn in the initial  *)
(* state, the action applies the method.                                   *)
(***************************************************************************)
Pending == [kind |-> "pending"]

Calls ==
    {[fn |-> "check_certificate", result |-> r] : r \in CertResults}
    \cup {[fn |-> "check_hsts_age", result |-> r, target_profile |-> p] :
            r \in HstsResults, p \in AllProfiles}
    \cup {[fn |-> "check_server_matches_profile", supported_protocols |-> sp,
           supported_ciphers |-> sc, target_profile |-> p] :
            sp \in SUBSET Protocols, sc \in SUBSET AllCiphers, p \in AllProfiles}

Call_check_certificate ==
    /\ call.fn = "check_certificate" /\ out = Pending
    /\ out' = [kind |-> "returned", errors |-> check_certificate(call.result)]
    /\ UNCHANGED <<call, lifecycle>>

Call_check_hsts_age ==
    /\ call.fn = "check_hsts_age" /\ out = Pending
    /\ out' = [kind |-> "returned",
               errors |-> check_hsts_age(call.result, call.target_profile)]
    /\ UNCHANGED <<call, lifecycle>>

Call_check_server_matches_profile ==
    /\ call.fn = "check_server_matches_profile" /\ out = Pending
    /\ \E errors \in check_server_matches_profile(call.supported_protocols,
                                                   call.supported_ciphers,
                                                   call.target_profile) :
          out' = [kind |-> "returned", errors |-> errors]
    /\ UNCHANGED <<call, lifecycle>>

(***************************************************************************)
(* The life of a TLSProfiler: __init__, then run() any number of times.    *)
(* A thread holds at most one profiler; it drops the one it holds when it  *)
(* starts constructing the next.  A step runs the code from one call into  *)
(* requests or sslyze up to the next one.                                  *)
(***************************************************************************)
NoObject == [NoObject |-> TRUE]

NoFrame == [fn |-> "none"]

NoReturn == [kind |-> "none"]

\* an audit that has issued no probe yet
NoProbes(target_profile_name) ==
    [target_profile_name |-> target_profile_name,  \* the argument of __init__
     connectivity |-> 0,     \* connectivity probes issued by __init__
     commands |-> <<>>,      \* scan commands issued by the current or last run()
     accepted |-> <<>>,      \* what each protocol scan of that run() accepted
     failed |-> "none",      \* the scan command that raised in that run()
     rerun |-> "no"]         \* whether that run() replaced earlier observations

\* the ServerConnectivityInfo of a reachable target
ServerInfo == [hostname |-> "old.dev.intranet", port |-> 443]

\* an exception leaves __init__: the caller gets no object
RaiseInit(t, exc, pr) ==
    /\ pc' = [pc EXCEPT ![t] = "idle"]
    /\ self' = [self EXCEPT ![t] = NoObject]
    /\ ret' = [ret EXCEPT ![t] = [kind |-> "raised", fn |-> "__init__", exc |-> exc]]
    /\ probes' = [probes EXCEPT ![t] = pr]

\* a bug __init__ could have: the connectivity probe is started before the
\* profile is looked up
Lookup_after_probe(t, doc, pr) ==
    IF "configurations" \in DOMAIN doc
       /\ pr.target_profile_name \in DOMAIN doc.configurations
    THEN /\ self' = [self EXCEPT ![t] =
                        [target_profile |-> doc.configurations[pr.target_profile_name]]]
         /\ pc' = [pc EXCEPT ![t] = "connect"]
         /\ ret' = [ret EXCEPT ![t] = NoReturn]
         /\ probes' = [probes EXCEPT ![t] = [pr EXCEPT !.connectivity = 1]]
    ELSE RaiseInit(t, "KeyError", [pr EXCEPT !.connectivity = 1])

\* self.target_profile = TLSProfiler.PROFILES['configurations'][name], then
\* the connectivity probe is started
Lookup(t, doc, pr) ==
    IF "configurations" \in DOMAIN doc
       /\ pr.target_profile_name \in DOMAIN doc.configurations
    THEN /\ self' = [self EXCEPT ![t] =
                        [target_profile |-> doc.configurations[pr.target_profile_name]]]
         /\ pc' = [pc EXCEPT ![t] = "connect"]
         /\ ret' = [ret EXCEPT ![t] = NoReturn]
         /\ probes' = [probes EXCEPT ![t] = [pr EXCEPT !.connectivity = 1]]
    ELSE RaiseInit(t, "KeyError", pr)

\* a bug __init__ could have: no test of the cache
Construct_Begin_always_fetch(t, target_profile_name) ==
    /\ pc[t] = "idle"
    /\ pc' = [pc EXCEPT ![t] = "fetch"]
    /\ self' = [self EXCEPT ![t] = NoObject]
    /\ ret' = [ret EXCEPT ![t] = NoReturn]
    /\ probes' = [probes EXCEPT ![t] = NoProbes(target_profile_name)]
    /\ UNCHANGED <<PROFILES, locals, call, out>>

\* TLSProfiler(domain, target_profile_name) is called: the test of the
\* cache, and either the request for the document or the lookup
Construct_Begin(t, target_profile_name) ==
    /\ pc[t] = "idle"
    /\ IF PROFILES = None
       THEN /\ pc' = [pc EXCEPT ![t] = "fetch"]
            /\ self' = [self EXCEPT ![t] = NoObject]
            /\ ret' = [ret EXCEPT ![t] = NoReturn]
            /\ probes' = [probes EXCEPT ![t] = NoProbes(target_profile_name)]
       ELSE Lookup(t, PROFILES, NoProbes(target_profile_name))
    /\ UNCHANGED <<PROFILES, locals, call, out>>

\* requests.get(...).json() returns a document: it is cached, its version
\* is logged, and the profile is looked up in the cache
Construct_Fetched(t, doc) ==
    /\ pc[t] = "fetch"
    /\ PROFILES' = doc
    /\ IF "version" \in DOMAIN doc
       THEN Lookup(t, doc, probes[t])
       ELSE RaiseInit(t, "KeyError", probes[t])
    /\ UNCHANGED <<locals, call, out>>

\* requests.get(...).json() raises: the document cannot be obtained
Construct_FetchFailed(t) ==
    /\ pc[t] = "fetch"
    /\ RaiseInit(t, "RequestException", probes[t])
    /\ UNCHANGED <<PROFILES, locals, call, out>>

\* server_tester.perform() returns
Construct_Connected(t) ==
    /\ pc[t] = "connect"
    /\ self' = [self EXCEPT ![t] = [target_profile |-> @.target_profile,
                                    server_info |-> ServerInfo,
                                    server_error |-> NoneStr]]
    /\ pc' = [pc EXCEPT ![t] = "idle"]
    /\ ret' = [ret EXCEPT ![t] = [kind |-> "TLSProfiler"]]
    /\ UNCHANGED <<PROFILES, locals, probes, call, out>>

\* the connectivity probe raises ServerConnectivityError
Construct_Unreachable(t, error_message) ==
    /\ pc[t] = "connect"
    /\ self' = [self EXCEPT ![t] = [target_profile |-> @.target_profile,
                                    server_info |-> None,
                                    server_error |-> error_message]]
    /\ pc' = [pc EXCEPT ![t] = "idle"]
    /\ ret' = [ret EXCEPT ![t] = [kind |-> "TLSProfiler"]]
    /\ UNCHANGED <<PROFILES, locals, probes, call, out>>

\* the local variables of a run() call that has just started
RunFrame ==
    [fn |-> "run",
     certificate_validation_errors |-> <<>>,
     hsts_errors |-> <<>>,
     supported_ciphers |-> <<>>,      \* of scan_supported_ciphers_and_protocols
     supported_protocols |-> <<>>,    \* of scan_supported_ciphers_and_protocols
     index |-> 0,                     \* the entry of SCAN_COMMANDS the loop is at
     profile_errors |-> <<>>,
     errors |-> <<>>]                 \* of check_vulnerabilities

\* self.scan(command) is called
Issue(pr, command) == [pr EXCEPT !.commands = Append(@, command)]

\* a bug run() could have: no test of server_info
Run_Begin_unguarded(t) ==
    /\ pc[t] = "idle"
    /\ self[t] # NoObject
    /\ pc' = [pc EXCEPT ![t] = "check_certificate"]
    /\ locals' = [locals EXCEPT ![t] = RunFrame]
    /\ ret' = [ret EXCEPT ![t] = NoReturn]
    /\ probes' = [probes EXCEPT ![t] =
                     Issue([@ EXCEPT !.commands = <<>>, !.accepted = <<>>,
                                     !.failed = "none", !.rerun = "no"],
                           "CertificateInfoScanCommand")]
    /\ UNCHANGED <<PROFILES, self, call, out>>

\* run() is called on a constructed profiler: it returns None at once when
\* server_info is None, and starts the certificate scan otherwise
Run_Begin(t) ==
    /\ pc[t] = "idle"
    /\ self[t] # NoObject
    /\ IF self[t].server_info = None
       THEN /\ ret' = [ret EXCEPT ![t] = [kind |-> "None"]]
            /\ locals' = [locals EXCEPT ![t] = NoFrame]
            /\ probes' = [probes EXCEPT ![t] =
                             [@ EXCEPT !.commands = <<>>, !.accepted = <<>>,
                                       !.failed = "none", !.rerun = "no"]]
            /\ UNCHANGED pc
       ELSE /\ pc' = [pc EXCEPT ![t] = "check_certificate"]
            /\ locals' = [locals EXCEPT ![t] = RunFrame]
            /\ ret' = [ret EXCEPT ![t] = NoReturn]
            /\ probes' = [probes EXCEPT ![t] =
                             Issue([@ EXCEPT !.commands = <<>>, !.accepted = <<>>,
                                             !.failed = "none", !.rerun = "no"],
                                   "CertificateInfoScanCommand")]
    /\ UNCHANGED <<PROFILES, self, call, out>>

\* the certificate scan returns: check_certificate, then check_hsts_age
\* starts the header scan
Run_Certificate(t, result) ==
    /\ pc[t] = "check_certificate"
    /\ locals' = [locals EXCEPT ![t].certificate_validation_errors =
                                    check_certificate(result)]
    /\ pc' = [pc EXCEPT ![t] = "check_hsts_age"]
    /\ probes' = [probes EXCEPT ![t] = Issue(@, "HttpHeadersScanCommand")]
    /\ UNCHANGED <<PROFILES, self, ret, call, out>>

\* the header scan returns: check_hsts_age, then the scan loop starts its
\* first protocol scan
Run_Hsts(t, result) ==
    /\ pc[t] = "check_hsts_age"
    /\ locals' = [locals EXCEPT ![t].hsts_errors =
                                    check_hsts_age(result, self[t].target_profile),
                                ![t].supported_ciphers = <<>>,
                                ![t].supported_protocols = <<>>,
                                ![t].index = 1]
    /\ pc' = [pc EXCEPT ![t] = "scan"]
    /\ probes' = [probes EXCEPT ![t] = Issue(@, SCAN_COMMANDS[1].command)]
    /\ UNCHANGED <<PROFILES, self, ret, call, out>>

\* a bug scan_supported_ciphers_and_protocols could have: the new
\* observations are merged into the attributes of an earlier run
SetObservations_merged(obj, supported_ciphers, supported_protocols) ==
    [target_profile |-> obj.target_profile,
     server_info |-> obj.server_info,
     server_error |-> obj.server_error,
     supported_ciphers |-> ToSet(supported_ciphers)
        \cup (IF "supported_ciphers" \in DOMAIN obj THEN obj.supported_ciphers ELSE {}),
     supported_protocols |-> ToSet(supported_protocols)
        \cup (IF "supported_protocols" \in DOMAIN obj THEN obj.supported_protocols ELSE {})]

\* self.supported_ciphers = set(...); self.supported_protocols = set(...)
SetObservations(obj, supported_ciphers, supported_protocols) ==
    [target_profile |-> obj.target_profile,
     server_info |-> obj.server_info,
     server_error |-> obj.server_error,
     supported_ciphers |-> ToSet(supported_ciphers),
     supported_protocols |-> ToSet(supported_protocols)]

\* whether new observations replace those of an earlier run, and whether
\* something that run observed is dropped
Rerun(obj, new) ==
    IF "supported_protocols" \in DOMAIN obj
    THEN IF obj.supported_protocols \subseteq new.supported_protocols
            /\ obj.supported_ciphers \subseteq new.supported_ciphers
         THEN "kept" ELSE "dropped"
    ELSE "no"

\* one protocol scan returns: an iteration of the loop of
\* scan_supported_ciphers_and_protocols; after the last one the attributes
\* are set, check_server_matches_profile runs and check_vulnerabilities
\* starts the Heartbleed scan
Run_Scan(t, accepted) ==
    /\ pc[t] = "scan"
    /\ accepted = <<>> \/ SCAN_COMMANDS[locals[t].index].name \in TargetProtocols
    /\ LET i == locals[t].index
           ciphers == locals[t].supported_ciphers \o accepted
           protocols == IF Len(accepted) # 0
                        THEN Append(locals[t].supported_protocols, SCAN_COMMANDS[i].name)
                        ELSE locals[t].supported_protocols
           pr == [probes[t] EXCEPT !.accepted = Append(@, accepted)]
       IN  IF i < Len(SCAN_COMMANDS)
           THEN /\ locals' = [locals EXCEPT ![t].supported_ciphers = ciphers,
                                            ![t].supported_protocols = protocols,
                                            ![t].index = i + 1]
                /\ probes' = [probes EXCEPT ![t] = Issue(pr, SCAN_COMMANDS[i + 1].command)]
                /\ UNCHANGED <<pc, self>>
           ELSE LET new == SetObservations(self[t], ciphers, protocols)
                IN  /\ self' = [self EXCEPT ![t] = new]
                    /\ \E errors \in check_server_matches_profile(
                                        new.supported_protocols, new.supported_ciphers,
                                        new.target_profile) :
                          locals' = [locals EXCEPT ![t].supported_ciphers = ciphers,
                                                   ![t].supported_protocols = protocols,
                                                   ![t].profile_errors = errors]
                    /\ pc' = [pc EXCEPT ![t] = "heartbleed"]
                    /\ probes' = [probes EXCEPT ![t] =
                                     Issue([pr EXCEPT !.rerun = Rerun(self[t], new)],
                                           "HeartbleedScanCommand")]
    /\ UNCHANGED <<PROFILES, ret, call, out>>

\* the Heartbleed scan returns
Run_Heartbleed(t, is_vulnerable_to_heartbleed) ==
    /\ pc[t] = "heartbleed"
    /\ locals' = [locals EXCEPT ![t].errors =
                    IF is_vulnerable_to_heartbleed
                    THEN Append(@, [msg |-> "Server is vulnerable to Heartbleed attack"])
                    ELSE @]
    /\ pc' = [pc EXCEPT ![t] = "ccs"]
    /\ probes' = [probes EXCEPT ![t] = Issue(@, "OpenSslCcsInjectionScanCommand")]
    /\ UNCHANGED <<PROFILES, self, ret, call, out>>

\* the CCS injection scan returns
Run_Ccs(t, is_vulnerable_to_ccs_injection) ==
    /\ pc[t] = "ccs"
    /\ locals' = [locals EXCEPT ![t].errors =
                    IF is_vulnerable_to_ccs_injection
                    THEN Append(@, [msg |->
                           "Server is vulnerable to OpenSSL CCS Injection (CVE-2014-0224)"])
                    ELSE @]
    /\ pc' = [pc EXCEPT ![t] = "robot"]
    /\ probes' = [probes EXCEPT ![t] = Issue(@, "RobotScanCommand")]
    /\ UNCHANGED <<PROFILES, self, ret, call, out>>

\* the ROBOT scan returns: check_vulnerabilities ends and run() returns the
\* TLSProfilerResult
Run_Robot(t, robot_result_enum) ==
    /\ pc[t] = "robot"
    /\ LET errors == IF robot_result_enum \in {"VULNERABLE_WEAK_ORACLE",
                                               "VULNERABLE_STRONG_ORACLE"}
                     THEN Append(locals[t].errors,
                                 [msg |-> "Server is vulnerable to ROBOT attack."])
                     ELSE locals[t].errors
       IN  /\ locals' = [locals EXCEPT ![t] = NoFrame]
           /\ ret' = [ret EXCEPT ![t] =
                         TLSProfilerResult(locals[t].certificate_validation_errors,
                                           locals[t].profile_errors \o locals[t].hsts_errors,
                                           errors)]
    /\ pc' = [pc EXCEPT ![t] = "idle"]
    /\ UNCHANGED <<PROFILES, self, probes, call, out>>

\* where run() waits for a scan command to return
ScanPoints == {"check_certificate", "check_hsts_age", "scan", "heartbleed", "ccs", "robot"}

\* the scan command run() waits for raises: neither scan() nor run() catches
\* anything, so the exception leaves run()
Run_ScanRaises(t) ==
    /\ pc[t] \in ScanPoints
    /\ pc' = [pc EXCEPT ![t] = "idle"]
    /\ ret' = [ret EXCEPT ![t] = [kind |-> "raised", fn |-> "run", exc |-> "scan error"]]
    /\ locals' = [locals EXCEPT ![t] = NoFrame]
    /\ probes' = [probes EXCEPT ![t].failed = probes[t].commands[Len(probes[t].commands)],
                                ![t].accepted = <<>>]
    /\ UNCHANGED <<PROFILES, self, call, out>>

(***************************************************************************)
(* Specifications.                                                         *)
(***************************************************************************)
Idle ==
    /\ PROFILES = None
    /\ pc = [t \in Threads |-> "idle"]
    /\ self = [t \in Threads |-> NoObject]
    /\ locals = [t \in Threads |-> NoFrame]
    /\ ret = [t \in Threads |-> NoReturn]
    /\ probes = [t \in Threads |-> NoProbes("")]

\* the process after import: nothing cached, nothing constructed
Init ==
    /\ Idle
    /\ call = [fn |-> "none"]
    /\ out = Pending

\* the thread of a single-threaded caller
Main == 1

Construct(t) ==
    \/ \E name \in ProfileNames : Construct_Begin(t, name)
    \/ \E doc \in Documents : Construct_Fetched(t, doc)
    \/ Construct_FetchFailed(t)
    \/ Construct_Connected(t)
    \/ \E error_message \in Causes : Construct_Unreachable(t, error_message)

Run(t) ==
    \/ Run_Begin(t)
    \/ \E result \in RunCertResults : Run_Certificate(t, result)
    \/ \E result \in HstsResults : Run_Hsts(t, result)
    \/ \E accepted \in AcceptedLists : Run_Scan(t, accepted)
    \/ \E v \in BOOLEAN : Run_Heartbleed(t, v)
    \/ \E v \in BOOLEAN : Run_Ccs(t, v)
    \/ \E e \in RobotScanResultEnum : Run_Robot(t, e)
    \/ Run_ScanRaises(t)

\* one thread constructs profilers and runs them, one call at a time
Next == Construct(Main) \/ Run(Main)

Spec == Init /\ [][Next]_vars

\* several threads construct profilers at the same time
NextConcurrent == \E t \in Threads : Construct(t)

SpecConcurrent == Init /\ [][NextConcurrent]_vars

\* one direct call of a check method, on inputs drawn from the bounded sets
InitCall ==
    /\ Idle
    /\ call \in Calls
    /\ out = Pending

NextCall ==
    \/ Call_check_certificate
    \/ Call_check_hsts_age
    \/ Call_check_server_matches_profile

SpecCall == InitCall /\ [][NextCall]_vars

(***************************************************************************)
(* Properties.                                                             *)
(***************************************************************************)
Returned(fn) == call.fn = fn /\ out.kind = "returned"

AllowedProtocols(profile) == ToSet(profile.tls_versions)

AllowedCiphers(profile) ==
    ToSet(profile.openssl_ciphersuites) \cup ToSet(profile.openssl_ciphers)

\* C1: check_server_matches_profile returns no error if and only if the
\* supported protocols are among the profile's tls_versions and the
\* supported ciphers among its openssl_ciphersuites and openssl_ciphers;
\* every error it returns names an identifier that was observed and is not
\* allowed, so what the profile allows and was not observed gives no error.
C1_NoErrorIffSubset ==
    Returned("check_server_matches_profile") =>
        LET illegal == (call.supported_protocols \ AllowedProtocols(call.target_profile))
                       \cup (call.supported_ciphers \ AllowedCiphers(call.target_profile))
        IN  /\ out.errors = <<>> <=>
                  /\ call.supported_protocols \subseteq AllowedProtocols(call.target_profile)
                  /\ call.supported_ciphers \subseteq AllowedCiphers(call.target_profile)
            /\ \A i \in 1..Len(out.errors) :
                  out.errors[i].msg = "must not support" /\ out.errors[i].id \in illegal

\* a server stricter than the profile: it supports some of what the profile
\* allows, not all of it, and no error is returned
C1_Witness ==
    /\ Returned("check_server_matches_profile")
    /\ out.errors = <<>>
    /\ call.supported_protocols # {}
    /\ call.supported_ciphers # {}
    /\ AllowedProtocols(call.target_profile) \ call.supported_protocols # {}
    /\ AllowedCiphers(call.target_profile) \ call.supported_ciphers # {}

\* the error check_certificate is to give for one bad flag of the result r
CertificateError(r, flag) ==
    CASE flag[1] = "path" ->
            [msg |-> "validation not successful",
             verify_string |-> r.path_validation_result_list[flag[2]].verify_string,
             trust_store |-> r.path_validation_result_list[flag[2]].trust_store.name]
      [] flag[1] = "chain" ->
            [msg |-> "Validation failed",
             joined |-> [i \in 1..Len(r.path_validation_error_list) |->
                            r.path_validation_error_list[i].error_message]]
      [] flag[1] = "hostname" ->
            [msg |-> "Leaf certificate subject does not match hostname!"]
      [] flag[1] = "order" -> [msg |-> "Certificate chain has wrong order."]
      [] flag[1] = "sha1" -> [msg |-> "SHA1 signature found in chain."]
      [] flag[1] = "symantec" -> [msg |-> "Symantec legacy certificate found in chain."]
      [] flag[1] = "sct" ->
            [msg |-> "Not enought SCTs in certificate, only found",
             n |-> r.leaf_certificate_signed_certificate_timestamps_count]

\* C7: check_certificate returns no error when every flag is good, and
\* exactly the one error of that flag when a single flag is bad; the rules
\* do not short-circuit: there are as many errors as bad flags.
C7_OneErrorPerBadFlag ==
    Returned("check_certificate") =>
        LET bad == BadFlags(call.result)
        IN  /\ bad = {} => out.errors = <<>>
            /\ \A flag \in bad :
                  bad = {flag} => out.errors = <<CertificateError(call.result, flag)>>
            /\ Len(out.errors) = Cardinality(bad)

\* two trust stores, the second of which fails, and every other flag good
C7_Witness ==
    /\ Returned("check_certificate")
    /\ BadFlags(call.result) = {<<"path", 2>>}
    /\ Len(out.errors) = 1
    /\ out.errors[1].trust_store = TrustStores[2]

\* C8: check_hsts_age returns at most one error: "HSTS header not set" when
\* there is no header, the age error naming max_age when the header's
\* max_age is below hsts_min_age, and none when it is hsts_min_age or more.
C8_HstsOneOutcome ==
    Returned("check_hsts_age") =>
        LET header == call.result.strict_transport_security_header
            min_age == call.target_profile.hsts_min_age
        IN  /\ Len(out.errors) <= 1
            /\ header = None => out.errors = <<[msg |-> "HSTS header not set"]>>
            /\ (header # None /\ header.max_age < min_age) =>
                  out.errors = <<[msg |-> "wrong HSTS age", n |-> header.max_age]>>
            /\ (header # None /\ header.max_age >= min_age) => out.errors = <<>>

\* a header with max_age = 0 = hsts_min_age - 1: one age error, naming 0
C8_Witness ==
    /\ Returned("check_hsts_age")
    /\ call.result.strict_transport_security_header # None
    /\ call.result.strict_transport_security_header.max_age = 0
    /\ call.target_profile.hsts_min_age = 1
    /\ out.errors = <<[msg |-> "wrong HSTS age", n |-> 0]>>

\* the profiler of thread t was constructed while its target was unreachable
Unreachable(t) ==
    /\ self[t] # NoObject
    /\ "server_info" \in DOMAIN self[t]
    /\ self[t].server_info = None

\* C2: once the connectivity probe has failed in __init__, no run() of that
\* profiler issues a scan command or produces a TLSProfilerResult: each
\* returns None at once, an outcome no reachable target gives, and the
\* cause stays with the profiler as server_error.
C2_UnreachableGivesNoReport ==
    \A t \in Threads :
        Unreachable(t) =>
            /\ pc[t] = "idle"
            /\ probes[t].commands = <<>>
            /\ ret[t].kind \in {"TLSProfiler", "None"}
            /\ self[t].server_error \in Causes
            /\ \A u \in Threads : ret[u].kind = "None" => Unreachable(u)

\* run() has returned None on a profiler whose target was unreachable
C2_Witness ==
    /\ Unreachable(Main)
    /\ ret[Main].kind = "None"
    /\ self[Main].server_error = "Connection timed out"

\* C3: when a scan command raises during run(), run() still ends with a
\* report, which holds an error for the failure.
C3_ProbeFailureStaysInReport ==
    \A t \in Threads :
        (probes[t].failed # "none" /\ pc[t] = "idle") =>
            /\ ret[t].kind = "TLSProfilerResult"
            /\ ~ret[t].all_ok

\* the threads whose request for the profile document is in flight
Fetching == {t \in Threads : pc[t] = "fetch"}

\* C4: the first load is serialized: at most one request for the profile
\* document is in flight at a time, and none once the document is cached.
C4_FirstLoadSerialized ==
    /\ Cardinality(Fetching) <= 1
    /\ PROFILES # None => Fetching = {}

\* C5: once the document is cached it is never replaced and no request for
\* it is made again, and the profile of every profiler is the one the
\* cached document has under the name it was constructed with.
C5_LoadedOnce ==
    /\ [](\A t \in Threads :
             (self[t] # NoObject) =>
                /\ PROFILES # None
                /\ self[t].target_profile =
                      PROFILES.configurations[probes[t].target_profile_name])
    /\ [][PROFILES # None =>
             /\ PROFILES' = PROFILES
             /\ \A t \in Threads : pc'[t] = "fetch" => pc[t] = "fetch"]_vars

\* a profiler built from a cached document whose load ended in a KeyError:
\* only a later construction can have built it
C5_Witness ==
    /\ PROFILES = DocNoVersion
    /\ self[Main] # NoObject
    /\ ret[Main].kind = "TLSProfiler"

\* C6: when __init__ raises (the name is not in the document, the document
\* lacks a key, or it cannot be obtained), no connectivity probe and no scan
\* command has been issued and there is no profiler to run; nor is any
\* probe issued while the document is being fetched.
C6_ConfigurationErrorBeforeProbes ==
    \A t \in Threads :
        /\ (ret[t].kind = "raised" /\ ret[t].fn = "__init__") =>
              /\ probes[t].connectivity = 0
              /\ probes[t].commands = <<>>
              /\ self[t] = NoObject
              /\ pc[t] = "idle"
        /\ pc[t] = "fetch" =>
              /\ probes[t].connectivity = 0
              /\ probes[t].commands = <<>>
              /\ self[t] = NoObject

\* __init__ raised KeyError for a name that is in no document, the document
\* being cached
C6_Witness ==
    /\ ret[Main] = [kind |-> "raised", fn |-> "__init__", exc |-> "KeyError"]
    /\ probes[Main].target_profile_name = "bogus"
    /\ PROFILES = Doc5

\* C9: in every report run() returns, validated, profile_matched and
\* vulnerable say whether the three lists are empty, all_ok is their
\* conjunction with vulnerable negated, and profile_errors is the
\* protocol/cipher errors followed by the HSTS errors: an HSTS error makes
\* profile_matched and all_ok false and does not touch validated.
C9_ReportBooleans ==
    [][\A t \in Threads :
          (pc[t] = "robot" /\ ret'[t].kind = "TLSProfilerResult") =>
             LET r == ret'[t]
             IN  /\ r.validation_errors = locals[t].certificate_validation_errors
                 /\ r.profile_errors = locals[t].profile_errors \o locals[t].hsts_errors
                 /\ r.validated <=> r.validation_errors = <<>>
                 /\ r.profile_matched <=> r.profile_errors = <<>>
                 /\ r.vulnerable <=> r.vulnerability_errors # <<>>
                 /\ r.all_ok <=> (r.validated /\ r.profile_matched /\ ~r.vulnerable)
                 /\ locals[t].hsts_errors # <<>> => (~r.profile_matched /\ ~r.all_ok)
                 /\ r.validated <=> locals[t].certificate_validation_errors = <<>>]_vars

\* a report whose only error is the missing HSTS header
C9_Witness ==
    /\ ret[Main].kind = "TLSProfilerResult"
    /\ ret[Main].profile_errors = <<[msg |-> "HSTS header not set"]>>
    /\ ret[Main].validated /\ ~ret[Main].vulnerable
    /\ ~ret[Main].profile_matched /\ ~ret[Main].all_ok

\* the identifiers the "must not support" errors of a list name
Named(errors) ==
    {errors[i].id : i \in {j \in 1..Len(errors) : errors[j].msg = "must not support"}}

\* C10: once the six protocol scans of a run() are done, and when the run
\* has returned its report, supported_protocols is the set of versions
\* whose scan in this run accepted a cipher and supported_ciphers the union
\* of what the six scans accepted, whatever an earlier run observed; and
\* the profile errors of the run are those of exactly these sets.
C10_ObservationsOfThisRun ==
    \A t \in Threads :
        LET accepted == probes[t].accepted
            protocols == {SCAN_COMMANDS[i].name :
                            i \in {j \in 1..Len(accepted) : accepted[j] # <<>>}}
            ciphers == UNION {ToSet(accepted[i]) : i \in 1..Len(accepted)}
            illegal == (protocols \ AllowedProtocols(self[t].target_profile))
                       \cup (ciphers \ AllowedCiphers(self[t].target_profile))
        IN  /\ pc[t] \in {"heartbleed", "ccs", "robot"} =>
                 /\ Len(accepted) = Len(SCAN_COMMANDS)
                 /\ self[t].supported_protocols = protocols
                 /\ self[t].supported_ciphers = ciphers
                 /\ Named(locals[t].profile_errors) = illegal
                 /\ Len(locals[t].profile_errors) = Cardinality(illegal)
            /\ (pc[t] = "idle" /\ ret[t].kind = "TLSProfilerResult") =>
                 /\ Len(accepted) = Len(SCAN_COMMANDS)
                 /\ self[t].supported_protocols = protocols
                 /\ self[t].supported_ciphers = ciphers
                 /\ Named(ret[t].profile_errors) = illegal

\* a later run() of the same profiler has returned, in which two versions
\* accepted different ciphers and something the earlier run observed is gone
C10_Witness ==
    /\ pc[Main] = "idle"
    /\ ret[Main].kind = "TLSProfilerResult"
    /\ probes[Main].rerun = "dropped"
    /\ self[Main].supported_protocols = {"TLSv1.2", "TLSv1.3"}
    /\ self[Main].supported_ciphers = ToSet(TargetCiphers)
    /\ probes[Main].accepted[5] # probes[Main].accepted[6]

=============================================================================
